---- MODULE Spec2Model ----
(***************************************************************************)
(* Library service: the borrowing engine (BorrowingService), the catalog   *)
(* delete operations and the transactional record store they run on.       *)
(*                                                                         *)
(* The store is a relational database reached through SQLAlchemy sessions  *)
(* (one session per call).  Every SQL statement of a call is one step, so  *)
(* that calls served by different workers interleave between statements;   *)
(* each statement sees the rows committed so far (READ COMMITTED).         *)
(***************************************************************************)
EXTENDS Integers, Sequences, FiniteSets, TLC

\* ------------------------------------------------------------------ bounds
\* integers handed to the id validators range over -MaxInt..MaxInt
MaxInt == 3
NumWorkers == 2
NumBooks == 2
NumMembers == 2
MaxCalls == 3

\* ------------------------------------------------------------- constants
\* return_date is nullable: NULL is Python's None / SQL NULL.
NULL == 0

Procs == 1..NumWorkers

Max(a, b) == IF a >= b THEN a ELSE b

\* ------------------------------------------------------------ input values
\* Python values handed to the service layer as ids: an int, a string that
\* looks like an int, or None.
IntVal(i) == [t |-> "int", v |-> i]

StrVal(i) == [t |-> "str", v |-> i]

NoneVal == [t |-> "none", v |-> 0]

\* the float i + 0.5, for i >= 0
FloatVal(i) == [t |-> "float", v |-> i]

\* a string that int() cannot parse
WordVal == [t |-> "word", v |-> 0]

MaxId == Max(NumBooks, NumMembers) + 1

IdInputs == {IntVal(i) : i \in 0..MaxId} \cup {StrVal(1), NoneVal}

\* ---------------------------------------------------------------- errors
Exc(type, code, msg, holder) ==
    [type |-> type, code |-> code, msg |-> msg, holder |-> holder]

NoExc == Exc("", "NONE", "", 0)

ValueError(msg) == Exc("ValueError", "NONE", msg, 0)

NameError(msg) == Exc("NameError", "NONE", msg, 0)

OperationalError == Exc("OperationalError", "NONE", "connection lost", 0)

IntegrityError == Exc("IntegrityError", "NONE", "constraint violated", 0)

\* app.infrastructure.database.DatabaseError: a plain Exception subclass
InfraDatabaseError(msg) == Exc("DatabaseError", "NONE", msg, 0)

\* Python truthiness of an input value (`not value`)
Truthy(x) ==
    IF x.t = "none" THEN FALSE
    ELSE IF x.t = "int" THEN x.v # 0
    ELSE TRUE

\* app.exceptions.base.ValidationError.__init__: the error code is chosen
\* from the field, the value and the words of the message.
ValidationErrorCode(hasField, valueTruthy, words) ==
    IF hasField /\ ~valueTruthy THEN "REQUIRED_FIELD_MISSING"
    ELSE IF "format" \in words THEN "INVALID_FORMAT"
    ELSE IF "length" \in words THEN "INVALID_LENGTH"
    ELSE IF "invalid" \in words THEN "INVALID_VALUE"
    ELSE "VALIDATION_ERROR"

ValidationError(msg, hasField, valueTruthy, words) ==
    Exc("ValidationError", ValidationErrorCode(hasField, valueTruthy, words), msg, 0)

\* Classes deriving from LibraryServiceError (they carry an error_code).
LibraryServiceErrors ==
    {"ValidationError", "BusinessLogicError", "ResourceNotFoundError",
     "ConflictError", "OperationNotAllowedError", "BookNotFoundError",
     "MemberNotFoundError", "BookAlreadyBorrowedError", "BookNotBorrowedError"}

\* ErrorHandler.handle_exception: the error code under which an exception is
\* reported; anything outside the taxonomy is wrapped as INTERNAL_ERROR.
handle_exception(e) ==
    IF e.type \in LibraryServiceErrors THEN e.code ELSE "INTERNAL_ERROR"

ValidationCodes ==
    {"VALIDATION_ERROR", "REQUIRED_FIELD_MISSING", "INVALID_FORMAT",
     "INVALID_LENGTH", "INVALID_VALUE"}

\* ------------------------------------------------------------- validation
Valid(i) == [ok |-> TRUE, v |-> i]

Invalid == [ok |-> FALSE, v |-> 0]

\* utils.validators.validate_positive_integer
validate_positive_integer(value) ==
    IF value.t # "int" THEN Invalid
    ELSE IF value.v <= 0 THEN Invalid
    ELSE Valid(value.v)

\* pydantic `int` field with gt=0, followed by the schema's validator:
\* a numeric string is coerced to int, None is rejected.
SchemaId(value) ==
    IF value.t = "none" THEN Invalid
    ELSE IF value.v <= 0 THEN Invalid
    ELSE validate_positive_integer(IntVal(value.v))

\* BorrowingCreateSchema / BorrowingReturnSchema through
\* ValidationService.validate_data
BorrowingCreateSchema(book_id, member_id) ==
    IF SchemaId(book_id).ok /\ SchemaId(member_id).ok
    THEN [ok |-> TRUE, book_id |-> SchemaId(book_id).v, member_id |-> SchemaId(member_id).v]
    ELSE [ok |-> FALSE, book_id |-> 0, member_id |-> 0]

\* the error validate_data raises: field="data", value=str(data)
validate_data_error ==
    ValidationError("Validation failed", TRUE, TRUE, {})

\* ValidationService.validate_id: int(id_value), then > 0
validate_id(id_value) ==
    IF id_value.t \in {"none", "word"} THEN Invalid
    ELSE IF id_value.v <= 0 THEN Invalid
    ELSE Valid(id_value.v)

validate_id_error(id_value) ==
    IF id_value.t \in {"none", "word"}
    THEN ValidationError("must be a valid integer", TRUE, FALSE, {})
    ELSE ValidationError("must be a positive integer", TRUE, Truthy(id_value), {})

\* ------------------------------------------------------------------ text
\* Python str values are sequences of one-character strings; None is apart.
Str(s) == [t |-> "str", s |-> s]

NoneStr == [t |-> "none", s |-> << >>]

\* `not value` / any([...]) for a str or None
TruthyStr(x) == x.t = "str" /\ x.s # << >>

Digits == {"0", "1", "2", "3", "4", "5", "6", "7", "8", "9"}

\* int(c) for a digit character
DigitValue(c) ==
    CASE c = "0" -> 0 [] c = "1" -> 1 [] c = "2" -> 2 [] c = "3" -> 3
      [] c = "4" -> 4 [] c = "5" -> 5 [] c = "6" -> 6 [] c = "7" -> 7
      [] c = "8" -> 8 [] c = "9" -> 9 [] OTHER -> 0

\* str.isdigit(): non-empty and made of digits only
isdigit(s) == s # << >> /\ \A i \in 1..Len(s) : s[i] \in Digits

RECURSIVE lstrip(_)
lstrip(s) == IF s # << >> /\ Head(s) = " " THEN lstrip(Tail(s)) ELSE s

RECURSIVE rstrip(_)
rstrip(s) ==
    IF s # << >> /\ s[Len(s)] = " " THEN rstrip(SubSeq(s, 1, Len(s) - 1)) ELSE s

\* str.strip()
strip(s) == rstrip(lstrip(s))

\* re.sub(r'[-\s]', '', isbn)
RECURSIVE RemoveHyphensAndSpaces(_)
RemoveHyphensAndSpaces(s) ==
    IF s = << >> THEN << >>
    ELSE IF Head(s) \in {"-", " "} THEN RemoveHyphensAndSpaces(Tail(s))
    ELSE <<Head(s)>> \o RemoveHyphensAndSpaces(Tail(s))

\* the outcome of validating one value: the value kept, or the failure;
\* `raw` tells a utils.validators.ValidationError raised inside a pydantic
\* validator (pydantic does not convert it) from a pydantic field error
Accepted(v) == [ok |-> TRUE, raw |-> FALSE, v |-> v, msg |-> ""]

FieldError(msg) == [ok |-> FALSE, raw |-> FALSE, v |-> NoneStr, msg |-> msg]

RawError(msg) == [ok |-> FALSE, raw |-> TRUE, v |-> NoneStr, msg |-> msg]

\* utils.validators._validate_isbn10_check_digit: the loop
\* total += int(isbn[i]) * (10 - i), i being 0-based there and 1-based here
RECURSIVE Isbn10Total(_, _)
Isbn10Total(isbn, n) ==
    IF n = 0 THEN 0
    ELSE DigitValue(isbn[n]) * (11 - n) + Isbn10Total(isbn, n - 1)

validate_isbn10_check_digit(isbn) ==
    /\ Len(isbn) = 10
    /\ LET check_digit == IF isbn[10] = "X" THEN 10 ELSE DigitValue(isbn[10])
       IN (Isbn10Total(isbn, 9) + check_digit) % 11 = 0

\* utils.validators._validate_isbn13_check_digit: multiplier 1 at even
\* 0-based positions and 3 at odd ones
RECURSIVE Isbn13Total(_, _)
Isbn13Total(isbn, n) ==
    IF n = 0 THEN 0
    ELSE DigitValue(isbn[n]) * (IF n % 2 = 1 THEN 1 ELSE 3) + Isbn13Total(isbn, n - 1)

validate_isbn13_check_digit_NoWrap(isbn) ==
    /\ Len(isbn) = 13
    /\ DigitValue(isbn[13]) = 10 - (Isbn13Total(isbn, 12) % 10)

validate_isbn13_check_digit(isbn) ==
    /\ Len(isbn) = 13
    /\ DigitValue(isbn[13]) = (10 - (Isbn13Total(isbn, 12) % 10)) % 10

\* utils.validators.validate_isbn on a str
validate_isbn(isbn) ==
    LET cleaned_isbn == RemoveHyphensAndSpaces(isbn) IN
    IF isbn = << >> THEN Accepted(Str(isbn))
    ELSE IF Len(cleaned_isbn) = 10
    THEN IF ~isdigit(cleaned_isbn)
            /\ ~(isdigit(SubSeq(cleaned_isbn, 1, 9))
                 /\ cleaned_isbn[10] \in Digits \cup {"X"})
         THEN RawError("ISBN-10 must contain only digits and optionally end with 'X'")
         ELSE IF ~validate_isbn10_check_digit(cleaned_isbn)
         THEN RawError("Invalid ISBN-10 check digit")
         ELSE Accepted(Str(cleaned_isbn))
    ELSE IF Len(cleaned_isbn) = 13
    THEN IF ~isdigit(cleaned_isbn)
         THEN RawError("ISBN-13 must contain only digits")
         ELSE IF ~validate_isbn13_check_digit(cleaned_isbn)
         THEN RawError("Invalid ISBN-13 check digit")
         ELSE Accepted(Str(cleaned_isbn))
    ELSE RawError("ISBN must be 10 or 13 digits long")

\* utils.validators.validate_required_string (min_length=1, max_length=255)
validate_required_string(value) ==
    IF value = << >> \/ strip(value) = << >>
    THEN RawError("is required and cannot be empty")
    ELSE IF Len(strip(value)) > 255
    THEN RawError("must be no more than 255 characters long")
    ELSE Accepted(Str(strip(value)))

\* BookUpdateSchema.title / .author: Optional[str], min_length=1,
\* max_length=255, then the validator
BookUpdateSchema_title(v) ==
    IF v.t = "none" THEN Accepted(NoneStr)
    ELSE IF Len(v.s) < 1 THEN FieldError("String should have at least 1 character")
    ELSE IF Len(v.s) > 255 THEN FieldError("String should have at most 255 characters")
    ELSE validate_required_string(v.s)

\* BookUpdateSchema.isbn / BookCreateSchema.isbn: Optional[str],
\* max_length=17, then the validator
BookUpdateSchema_isbn(v) ==
    IF v.t = "none" THEN Accepted(NoneStr)
    ELSE IF Len(v.s) > 17 THEN FieldError("String should have at most 17 characters")
    ELSE IF strip(v.s) = << >> THEN Accepted(NoneStr)
    ELSE validate_isbn(strip(v.s))

\* BookCreateSchema.title / .author: str, required
BookCreateSchema_title(v) ==
    IF v.t = "none" THEN FieldError("Input should be a valid string")
    ELSE BookUpdateSchema_title(v)

\* validation_service.validate_data(data, schema): the fields are validated
\* in their order of declaration; an exception a validator raises that is
\* not a ValueError leaves at once, field errors are collected and raised
\* together as exceptions.base.ValidationError
validate_book_data(title, author, isbn) ==
    IF title.raw THEN [ok |-> FALSE, raw |-> TRUE, msg |-> title.msg]
    ELSE IF author.raw THEN [ok |-> FALSE, raw |-> TRUE, msg |-> author.msg]
    ELSE IF isbn.raw THEN [ok |-> FALSE, raw |-> TRUE, msg |-> isbn.msg]
    ELSE IF ~(title.ok /\ author.ok /\ isbn.ok)
    THEN [ok |-> FALSE, raw |-> FALSE, msg |-> "Validation failed"]
    ELSE [ok |-> TRUE, raw |-> FALSE, msg |-> ""]

\* ------------------------------------------------------------------ state
VARIABLES
    books,       \* ids of the committed Book rows
    members,     \* ids of the committed Member rows
    borrowings,  \* committed Borrowing rows, borrowings[i].id = i
    clock,       \* number of datetime.utcnow() readings so far
    ncalls,      \* number of service calls started so far
    local,       \* per worker: the call it is serving and its locals
    catalog,     \* committed Book rows: catalog[id] = the row's columns
    book_seq,    \* last value handed out by the sequence of books.id
    mapper,      \* the exception under mapping and the results obtained
    validation   \* the validator applied, its argument and its outcome

vars ==
    <<books, members, borrowings, clock, ncalls, local, catalog, book_seq, mapper,
      validation>>

Row(id, book_id, member_id, borrow_date, return_date) ==
    [id |-> id, book_id |-> book_id, member_id |-> member_id,
     borrow_date |-> borrow_date, return_date |-> return_date]

\* a unit of work held by a session and not yet committed
Pending(kind, row) == [kind |-> kind, row |-> row]

NoRow == Row(0, 0, 0, 0, NULL)

NoPending == Pending("none", NoRow)

\* the columns of a Book row that the services read and write
BookRow(title, author, isbn) == [title |-> title, author |-> author, isbn |-> isbn]

NoBook == BookRow(NoneStr, NoneStr, NoneStr)

\* a worker's frame; args, data, commits and rollbacks serve the catalog
\* operations: the field values received, the values to write, and the
\* commits and rollbacks get_db_session has made; closes counts the calls of
\* close_session on the frame's session
Idle ==
    [pc |-> "idle", op |-> "", book_id |-> 0, member_id |-> 0, id |-> 0,
     sess |-> "none", pending |-> NoPending, wrote |-> {},
     exc |-> NoExc, rv |-> "", ret |-> {},
     args |-> NoBook, data |-> NoBook, commits |-> 0, rollbacks |-> 0, closes |-> 0]

\* the mapper at rest: no exception in hand
NoMapping ==
    [code |-> "", applied |-> {}, grpc |-> "", grpc_default |-> FALSE,
     http |-> 0, http_default |-> FALSE, retryable |-> FALSE, category |-> ""]

\* no validator applied yet
NoValidation == [fn |-> "", arg |-> NoneVal, out |-> Invalid]

Init ==
    /\ books = 1..NumBooks
    /\ members = 1..NumMembers
    /\ borrowings = << >>
    /\ clock = 0
    /\ ncalls = 0
    /\ local = [p \in Procs |-> Idle]
    /\ catalog = [b \in 1..NumBooks |-> BookRow(Str(<<"a">>), Str(<<"a">>), NoneStr)]
    /\ book_seq = NumBooks
    /\ mapper = NoMapping
    /\ validation = NoValidation

\* ---------------------------------------------------------------- queries
Ids(rows) == DOMAIN rows

\* Borrowing.is_active
is_active(row) == row.return_date = NULL

ActiveOfBook_AnyBook(rows, b) == {i \in Ids(rows) : is_active(rows[i])}

\* session.query(Borrowing).filter(book_id == b, return_date IS NULL)
ActiveOfBook(rows, b) ==
    {i \in Ids(rows) : rows[i].book_id = b /\ is_active(rows[i])}

\* session.query(Borrowing).filter(book_id == b, member_id == m, return_date IS NULL)
ActiveOfPair(rows, b, m) ==
    {i \in Ids(rows) : rows[i].book_id = b /\ rows[i].member_id = m /\ is_active(rows[i])}

RowsOfPair(rows, b, m) ==
    {i \in Ids(rows) : rows[i].book_id = b /\ rows[i].member_id = m}

RowsOfMember(rows, m) == {i \in Ids(rows) : rows[i].member_id = m}

RowsOfBook(rows, b) == {i \in Ids(rows) : rows[i].book_id = b}

ActiveRows(rows) == {i \in Ids(rows) : is_active(rows[i])}

\* Query.first() without ORDER BY: any matching row, or None (0) if none matches
FirstOf(S) == IF S = {} THEN {0} ELSE S

First(S) == CHOOSE x \in FirstOf(S) : TRUE

\* ------------------------------------------------------- session plumbing
\* database.get_session: the worker starts serving operation o on a session
\* of its own
get_session(o) == [Idle EXCEPT !.op = o, !.pc = "run", !.sess = "open"]

Rejected_SessionFirst(o, e) ==
    [Idle EXCEPT !.op = o, !.pc = "done", !.exc = e, !.sess = "closed"]

\* the state of a worker whose call raised before it opened a session
Rejected(o, e) == [Idle EXCEPT !.op = o, !.pc = "done", !.exc = e]

close_session_Leaked(l) == [l EXCEPT !.pending = NoPending, !.pc = "done"]

\* database.close_session -> Session.close(): the transaction in progress is
\* rolled back, so whatever the session still holds uncommitted is dropped.
close_session(l) ==
    [l EXCEPT !.sess = "closed", !.closes = @ + 1, !.pending = NoPending, !.pc = "done"]

\* an exception leaves the try block: the finally clause closes the session
Raise(l, e) == close_session([l EXCEPT !.exc = e])

\* a request is handed to the first free worker of the pool
CanCall(p) ==
    /\ local[p].pc = "idle"
    /\ \A q \in Procs : q < p => local[q].pc # "idle"
    /\ ncalls < MaxCalls

\* database.get_db_session: what the context manager raises for an exception
\* thrown in its body or by its commit (after session.rollback())
get_db_session_error(e) ==
    IF e.type = "IntegrityError"
    THEN InfraDatabaseError("Database integrity constraint violation")
    ELSE IF e.type = "OperationalError"
    THEN InfraDatabaseError("Database connection or operation failed")
    ELSE InfraDatabaseError("Unexpected database error")

Rollback_Swallowed(l, e) == close_session(l)

\* database.get_db_session, an except clause: session.rollback(), raise
\* DatabaseError(...), then finally close_session
Rollback(l, e) ==
    Raise([l EXCEPT !.rollbacks = @ + 1], get_db_session_error(e))

\* database.get_db_session, normal exit: session.commit() succeeded, then
\* finally close_session
Committed(l) == close_session([l EXCEPT !.commits = @ + 1, !.pending = NoPending])

\* library_exceptions.BookNotFoundError
BookNotFoundError ==
    Exc("BookNotFoundError", "RESOURCE_NOT_FOUND", "Book not found", 0)

\* the points of a commit at which the store may fail: while the pending
\* statement and COMMIT run, or in the session.refresh() that follows
CommitFaults == {"none", "commit", "refresh"}

\* the call returns (or raises) to its caller; the worker is free again
Return(p) ==
    /\ local[p].pc = "done"
    /\ local' = [local EXCEPT ![p] = Idle]
    /\ UNCHANGED <<validation, catalog, book_seq, mapper, books, members, borrowings, clock, ncalls>>

\* ------------------------------------------- BorrowingService.borrow_book
QueryBook_MemberFirst(l, fault) ==
    IF fault THEN Raise(l, OperationalError)
    ELSE IF l.member_id \notin members THEN Raise(l, ValueError("Member not found"))
    ELSE IF l.book_id \notin books THEN Raise(l, ValueError("Book not found"))
    ELSE [l EXCEPT !.pc = "q_member"]

\* book = session.query(Book).filter(Book.id == book_id).first()
QueryBook(l, fault) ==
    IF fault THEN Raise(l, OperationalError)
    ELSE IF l.book_id \notin books THEN Raise(l, ValueError("Book not found"))
    ELSE [l EXCEPT !.pc = "q_member"]

\* validate, open the session, look the book up
borrow_book(p, book_id, member_id) ==
    /\ CanCall(p)
    /\ \E fault \in BOOLEAN :
        LET validated_data == BorrowingCreateSchema(book_id, member_id) IN
        local' = [local EXCEPT ![p] =
            IF ~validated_data.ok
            THEN Rejected("borrow_book", validate_data_error)
            ELSE QueryBook([get_session("borrow_book") EXCEPT
                              !.book_id = validated_data.book_id,
                              !.member_id = validated_data.member_id], fault)]
    /\ ncalls' = ncalls + 1
    /\ UNCHANGED <<validation, catalog, book_seq, mapper, books, members, borrowings, clock>>

\* member = session.query(Member).filter(Member.id == member_id).first()
BorrowQueryMember(p) ==
    /\ local[p].pc = "q_member"
    /\ \E fault \in BOOLEAN :
        local' = [local EXCEPT ![p] =
            IF fault THEN Raise(@, OperationalError)
            ELSE IF local[p].member_id \notin members
                 THEN Raise(@, ValueError("Member not found"))
                 ELSE [@ EXCEPT !.pc = "q_active"]]
    /\ UNCHANGED <<validation, catalog, book_seq, mapper, books, members, borrowings, clock, ncalls>>

\* existing_borrowing = ...first(); if none: Borrowing(...), session.add()
BorrowQueryActive(p) ==
    /\ local[p].pc = "q_active"
    /\ \E fault \in BOOLEAN :
        LET existing_borrowing == First(ActiveOfBook(borrowings, local[p].book_id)) IN
        IF fault
        THEN /\ local' = [local EXCEPT ![p] = Raise(@, OperationalError)]
             /\ clock' = clock
        ELSE IF existing_borrowing # 0
        THEN /\ local' = [local EXCEPT ![p] =
                            Raise(@, ValueError("Book is already borrowed"))]
             /\ clock' = clock
        ELSE /\ local' = [local EXCEPT ![p] =
                    [@ EXCEPT
                        !.pending = Pending("insert",
                            Row(0, local[p].book_id, local[p].member_id, clock + 1, NULL)),
                        !.pc = "commit"]]
             /\ clock' = clock + 1
    /\ UNCHANGED <<validation, catalog, book_seq, mapper, books, members, borrowings, ncalls>>

\* Borrowing.book_id / member_id: ForeignKey('books.id'), ForeignKey('members.id')
ForeignKeysHold(row) == row.book_id \in books /\ row.member_id \in members

Insert_Returned(rows, row) == Append(rows, [row EXCEPT !.return_date = row.borrow_date])

\* INSERT INTO borrowings: the table with the row added
Insert(rows, row) == Append(rows, row)

\* session.commit(): INSERT the pending row, COMMIT; session.refresh(borrowing)
BorrowCommit(p) ==
    /\ local[p].pc = "commit"
    /\ local[p].op = "borrow_book"
    /\ \E fault \in CommitFaults :
        LET row == [local[p].pending.row EXCEPT !.id = Len(borrowings) + 1]
            committed == [local[p] EXCEPT !.pending = NoPending, !.id = row.id,
                                          !.wrote = @ \cup {<<"borrowings", row.id>>}]
        IN
        IF fault = "commit"
        THEN /\ local' = [local EXCEPT ![p] = Raise(@, OperationalError)]
             /\ borrowings' = borrowings
        ELSE IF ~ForeignKeysHold(row)
        THEN /\ local' = [local EXCEPT ![p] = Raise(@, IntegrityError)]
             /\ borrowings' = borrowings
        ELSE /\ borrowings' = Insert(borrowings, row)
             /\ local' = [local EXCEPT ![p] =
                    IF fault = "refresh" THEN Raise(committed, OperationalError)
                    ELSE close_session([committed EXCEPT !.rv = "Row", !.ret = {row.id}])]
    /\ UNCHANGED <<validation, catalog, book_seq, mapper, books, members, clock, ncalls>>

\* ------------------------------------------- BorrowingService.return_book
\* borrowing.return_date = datetime.utcnow()
MarkReturned_Unchanged(row, now) == row

MarkReturned(row, now) == [row EXCEPT !.return_date = now]

\* borrowing = ...first(); if found: borrowing.return_date = datetime.utcnow()
return_book(p, book_id, member_id) ==
    /\ CanCall(p)
    /\ LET validated_data == BorrowingCreateSchema(book_id, member_id)
           l == [get_session("return_book") EXCEPT
                    !.book_id = validated_data.book_id,
                    !.member_id = validated_data.member_id]
       IN
       \E fault \in BOOLEAN,
          borrowing \in FirstOf(ActiveOfPair(borrowings, l.book_id, l.member_id)) :
        IF ~validated_data.ok
        THEN /\ local' = [local EXCEPT ![p] = Rejected("return_book", validate_data_error)]
             /\ clock' = clock
        ELSE IF fault
        THEN /\ local' = [local EXCEPT ![p] = Raise(l, OperationalError)]
             /\ clock' = clock
        ELSE IF borrowing = 0
        THEN /\ local' = [local EXCEPT ![p] = Raise(l,
                    ValueError("No active borrowing found for this book and member"))]
             /\ clock' = clock
        ELSE /\ local' = [local EXCEPT ![p] =
                    [l EXCEPT
                        !.id = borrowing,
                        !.pending = Pending("update",
                            MarkReturned(borrowings[borrowing], clock + 1)),
                        !.pc = "commit"]]
             /\ clock' = clock + 1
    /\ ncalls' = ncalls + 1
    /\ UNCHANGED <<validation, catalog, book_seq, mapper, books, members, borrowings>>

\* session.commit(): UPDATE borrowings SET return_date = ... WHERE id = ...,
\* COMMIT; session.refresh(borrowing)
ReturnCommit(p) ==
    /\ local[p].pc = "commit"
    /\ local[p].op = "return_book"
    /\ \E fault \in CommitFaults :
        LET committed == [local[p] EXCEPT !.pending = NoPending,
                                          !.wrote = @ \cup {<<"borrowings", local[p].id>>}]
        IN
        IF fault = "commit"
        THEN /\ local' = [local EXCEPT ![p] = Raise(@, OperationalError)]
             /\ borrowings' = borrowings
        ELSE /\ borrowings' = [borrowings EXCEPT
                    ![local[p].id].return_date = local[p].pending.row.return_date]
             /\ local' = [local EXCEPT ![p] =
                    IF fault = "refresh" THEN Raise(committed, OperationalError)
                    ELSE close_session([committed EXCEPT !.rv = "Row", !.ret = {local[p].id}])]
    /\ UNCHANGED <<validation, catalog, book_seq, mapper, books, members, clock, ncalls>>

\* ------------------------------------------------ read-only engine calls
Selected_ActiveOnly(l) ==
    IF l.op = "get_member_borrowings"
    THEN {i \in RowsOfMember(borrowings, l.member_id) : is_active(borrowings[i])}
    ELSE IF l.op = "get_active_borrowings" THEN ActiveRows(borrowings)
    ELSE {l.id} \cap Ids(borrowings)

\* the rows the query of a read-only call selects
Selected(l) ==
    IF l.op = "get_member_borrowings" THEN RowsOfMember(borrowings, l.member_id)
    ELSE IF l.op = "get_active_borrowings" THEN ActiveRows(borrowings)
    ELSE {l.id} \cap Ids(borrowings)

\* session.query(Borrowing).filter(...).all() / .first(); return
Query(l, fault) ==
    IF fault THEN Raise(l, OperationalError)
    ELSE close_session([l EXCEPT
            !.ret = Selected(l),
            !.rv = IF l.op # "get_borrowing" THEN "List"
                   ELSE IF Selected(l) = {} THEN "None" ELSE "Row"])

get_member_borrowings(p, member_id) ==
    /\ CanCall(p)
    /\ \E fault \in BOOLEAN :
        LET validated_id == validate_id(member_id) IN
        local' = [local EXCEPT ![p] =
            IF ~validated_id.ok
            THEN Rejected("get_member_borrowings", validate_id_error(member_id))
            ELSE Query([get_session("get_member_borrowings") EXCEPT
                           !.member_id = validated_id.v], fault)]
    /\ ncalls' = ncalls + 1
    /\ UNCHANGED <<validation, catalog, book_seq, mapper, books, members, borrowings, clock>>

get_active_borrowings(p) ==
    /\ CanCall(p)
    /\ \E fault \in BOOLEAN :
        local' = [local EXCEPT ![p] = Query(get_session("get_active_borrowings"), fault)]
    /\ ncalls' = ncalls + 1
    /\ UNCHANGED <<validation, catalog, book_seq, mapper, books, members, borrowings, clock>>

get_borrowing(p, borrowing_id) ==
    /\ CanCall(p)
    /\ \E fault \in BOOLEAN :
        LET validated_id == validate_id(borrowing_id) IN
        local' = [local EXCEPT ![p] =
            IF ~validated_id.ok
            THEN Rejected("get_borrowing", validate_id_error(borrowing_id))
            ELSE Query([get_session("get_borrowing") EXCEPT !.id = validated_id.v], fault)]
    /\ ncalls' = ncalls + 1
    /\ UNCHANGED <<validation, catalog, book_seq, mapper, books, members, borrowings, clock>>

\* ----------------------- BookService.delete_book / BaseService._delete_record
\* record = session.query(Book)...first(); session.delete(record)
\* (an exception in the with block is re-raised by get_db_session)
delete_book(p, book_id) ==
    /\ CanCall(p)
    /\ \E fault \in BOOLEAN :
        LET validated_id == validate_id(book_id)
            l == [get_session("delete_book") EXCEPT !.book_id = validated_id.v]
        IN
        local' = [local EXCEPT ![p] =
            IF ~validated_id.ok
            THEN Rejected("delete_book", validate_id_error(book_id))
            ELSE IF fault THEN Rollback(l, OperationalError)
            ELSE IF l.book_id \notin books
            THEN Rollback(l, BookNotFoundError)
            ELSE [l EXCEPT !.pending = Pending("delete", Row(l.book_id, 0, 0, 0, NULL)),
                           !.pc = "commit"]]
    /\ ncalls' = ncalls + 1
    /\ UNCHANGED <<validation, catalog, book_seq, mapper, books, members, borrowings, clock>>

\* the rows whose book_id references book b: the `borrowings` backref of Book
Referencing_ActiveOnly(b) == ActiveOfBook(borrowings, b)

Referencing(b) == RowsOfBook(borrowings, b)

\* session.commit() in get_db_session: the flush detaches the book's
\* borrowings (book_id is NOT NULL) and deletes the book (books.id is
\* referenced by borrowings.book_id); both are refused by the store while a
\* Borrowing row references the book.
DeleteCommit(p) ==
    /\ local[p].pc = "commit"
    /\ local[p].op = "delete_book"
    /\ \E fault \in BOOLEAN :
        IF fault
        THEN /\ local' = [local EXCEPT ![p] = Rollback(@, OperationalError)]
             /\ UNCHANGED <<books, catalog>>
        ELSE IF Referencing(local[p].book_id) # {}
        THEN /\ local' = [local EXCEPT ![p] = Rollback(@, IntegrityError)]
             /\ UNCHANGED <<books, catalog>>
        ELSE /\ books' = books \ {local[p].book_id}
             /\ catalog' = [b \in books \ {local[p].book_id} |-> catalog[b]]
             /\ local' = [local EXCEPT ![p] =
                    Committed([@ EXCEPT !.rv = "True",
                                        !.wrote = @ \cup {<<"books", local[p].book_id>>}])]
    /\ UNCHANGED <<validation, book_seq, mapper, members, borrowings, clock, ncalls>>

\* ------------------------------------------- MemberService.delete_member
\* The first statement calls log_function_call, a name member_service.py
\* never imports: the call raises NameError before it validates anything.
delete_member(p, member_id) ==
    /\ CanCall(p)
    /\ local' = [local EXCEPT ![p] =
                    Rejected("delete_member", NameError("log_function_call"))]
    /\ ncalls' = ncalls + 1
    /\ UNCHANGED <<validation, catalog, book_seq, mapper, books, members, borrowings, clock>>

\* ------------------------------------------------- exceptions.base.ErrorCode
ValidationErrorCodes ==
    {"VALIDATION_ERROR", "REQUIRED_FIELD_MISSING", "INVALID_FORMAT",
     "INVALID_LENGTH", "INVALID_VALUE"}

BusinessLogicErrorCodes ==
    {"RESOURCE_NOT_FOUND", "RESOURCE_ALREADY_EXISTS", "BUSINESS_RULE_VIOLATION",
     "OPERATION_NOT_ALLOWED", "CONFLICT"}

DatabaseErrorCodes ==
    {"DATABASE_ERROR", "INTEGRITY_CONSTRAINT_VIOLATION", "CONNECTION_ERROR",
     "TRANSACTION_ERROR"}

AuthorizationErrorCodes == {"UNAUTHORIZED", "FORBIDDEN", "INVALID_CREDENTIALS"}

SystemErrorCodes ==
    {"INTERNAL_ERROR", "SERVICE_UNAVAILABLE", "TIMEOUT", "RATE_LIMIT_EXCEEDED"}

ErrorCode ==
    ValidationErrorCodes \cup BusinessLogicErrorCodes \cup DatabaseErrorCodes
        \cup AuthorizationErrorCodes \cup SystemErrorCodes

\* ------------------------------------------ exceptions.grpc_mapping / handler
\* one entry of a mapping dict
Entry(k, v) == [key |-> k, value |-> v]

Keys(dict) == {e.key : e \in dict}

\* dict[k] for a key the dict holds
Lookup(dict, k) == (CHOOSE e \in dict : e.key = k).value

ERROR_CODE_TO_GRPC_STATUS_Partial ==
    {Entry(c, "INVALID_ARGUMENT") : c \in ValidationErrorCodes}
        \cup {Entry("RESOURCE_NOT_FOUND", "NOT_FOUND")}

\* GRPCStatusMapper.ERROR_CODE_TO_GRPC_STATUS
ERROR_CODE_TO_GRPC_STATUS ==
    {Entry(c, "INVALID_ARGUMENT") : c \in ValidationErrorCodes} \cup
    {Entry("RESOURCE_NOT_FOUND", "NOT_FOUND"),
     Entry("RESOURCE_ALREADY_EXISTS", "ALREADY_EXISTS"),
     Entry("BUSINESS_RULE_VIOLATION", "FAILED_PRECONDITION"),
     Entry("OPERATION_NOT_ALLOWED", "FAILED_PRECONDITION"),
     Entry("CONFLICT", "ABORTED"),
     Entry("DATABASE_ERROR", "INTERNAL"),
     Entry("INTEGRITY_CONSTRAINT_VIOLATION", "INTERNAL"),
     Entry("CONNECTION_ERROR", "UNAVAILABLE"),
     Entry("TRANSACTION_ERROR", "INTERNAL"),
     Entry("UNAUTHORIZED", "UNAUTHENTICATED"),
     Entry("FORBIDDEN", "PERMISSION_DENIED"),
     Entry("INVALID_CREDENTIALS", "UNAUTHENTICATED"),
     Entry("INTERNAL_ERROR", "INTERNAL"),
     Entry("SERVICE_UNAVAILABLE", "UNAVAILABLE"),
     Entry("TIMEOUT", "DEADLINE_EXCEEDED"),
     Entry("RATE_LIMIT_EXCEEDED", "RESOURCE_EXHAUSTED")}

\* ERROR_CODE_TO_GRPC_STATUS.get(exception.error_code, StatusCode.INTERNAL)
map_exception_to_grpc_status(error_code) ==
    IF error_code \in Keys(ERROR_CODE_TO_GRPC_STATUS)
    THEN Lookup(ERROR_CODE_TO_GRPC_STATUS, error_code)
    ELSE "INTERNAL"

\* ErrorHandler._map_to_http_status: the dict error_code_to_http_status
error_code_to_http_status ==
    {Entry(c, 400) : c \in ValidationErrorCodes} \cup
    {Entry("RESOURCE_NOT_FOUND", 404),
     Entry("RESOURCE_ALREADY_EXISTS", 409),
     Entry("BUSINESS_RULE_VIOLATION", 422),
     Entry("OPERATION_NOT_ALLOWED", 403),
     Entry("CONFLICT", 409),
     Entry("DATABASE_ERROR", 500),
     Entry("INTEGRITY_CONSTRAINT_VIOLATION", 500),
     Entry("CONNECTION_ERROR", 503),
     Entry("TRANSACTION_ERROR", 500),
     Entry("UNAUTHORIZED", 401),
     Entry("FORBIDDEN", 403),
     Entry("INVALID_CREDENTIALS", 401),
     Entry("INTERNAL_ERROR", 500),
     Entry("SERVICE_UNAVAILABLE", 503),
     Entry("TIMEOUT", 504),
     Entry("RATE_LIMIT_EXCEEDED", 429)}

\* error_code_to_http_status.get(error_code, 500)
map_to_http_status(error_code) ==
    IF error_code \in Keys(error_code_to_http_status)
    THEN Lookup(error_code_to_http_status, error_code)
    ELSE 500

retryable_statuses_WithInternal ==
    {"UNAVAILABLE", "DEADLINE_EXCEEDED", "RESOURCE_EXHAUSTED", "ABORTED", "INTERNAL"}

\* GRPCStatusMapper.is_retryable_error: retryable_statuses
retryable_statuses ==
    {"UNAVAILABLE", "DEADLINE_EXCEEDED", "RESOURCE_EXHAUSTED", "ABORTED"}

is_retryable_error(error_code) ==
    map_exception_to_grpc_status(error_code) \in retryable_statuses

get_error_category_NoDatabase(error_code) ==
    IF error_code \in ValidationErrorCodes THEN "validation"
    ELSE IF error_code \in BusinessLogicErrorCodes THEN "business_logic"
    ELSE "system"

\* GRPCStatusMapper.get_error_category
get_error_category(error_code) ==
    IF error_code \in ValidationErrorCodes THEN "validation"
    ELSE IF error_code \in BusinessLogicErrorCodes THEN "business_logic"
    ELSE IF error_code \in DatabaseErrorCodes THEN "database"
    ELSE IF error_code \in AuthorizationErrorCodes THEN "authorization"
    ELSE "system"

\* a LibraryServiceError with error code c is handed to the mapper
raise_error(c) ==
    /\ mapper = NoMapping
    /\ mapper' = [mapper EXCEPT !.code = c]
    /\ UNCHANGED <<validation, books, members, borrowings, clock, ncalls, local, catalog, book_seq>>

MapToGrpc ==
    /\ mapper.code # ""
    /\ "grpc" \notin mapper.applied
    /\ mapper' = [mapper EXCEPT
            !.applied = @ \cup {"grpc"},
            !.grpc = map_exception_to_grpc_status(mapper.code),
            !.grpc_default = mapper.code \notin Keys(ERROR_CODE_TO_GRPC_STATUS)]
    /\ UNCHANGED <<validation, books, members, borrowings, clock, ncalls, local, catalog, book_seq>>

MapToHttp ==
    /\ mapper.code # ""
    /\ "http" \notin mapper.applied
    /\ mapper' = [mapper EXCEPT
            !.applied = @ \cup {"http"},
            !.http = map_to_http_status(mapper.code),
            !.http_default = mapper.code \notin Keys(error_code_to_http_status)]
    /\ UNCHANGED <<validation, books, members, borrowings, clock, ncalls, local, catalog, book_seq>>

IsRetryable ==
    /\ mapper.code # ""
    /\ "retryable" \notin mapper.applied
    /\ mapper' = [mapper EXCEPT
            !.applied = @ \cup {"retryable"},
            !.retryable = is_retryable_error(mapper.code)]
    /\ UNCHANGED <<validation, books, members, borrowings, clock, ncalls, local, catalog, book_seq>>

GetCategory ==
    /\ mapper.code # ""
    /\ "category" \notin mapper.applied
    /\ mapper' = [mapper EXCEPT
            !.applied = @ \cup {"category"},
            !.category = get_error_category(mapper.code)]
    /\ UNCHANGED <<validation, books, members, borrowings, clock, ncalls, local, catalog, book_seq>>

\* ----------------------------------------------------- transport adapters
\* GRPCStatusMapper.map_generic_exception_to_grpc_status
map_generic_exception_to_grpc_status(e) ==
    IF e.type \in {"ValueError", "KeyError", "TypeError", "AttributeError"}
    THEN "INVALID_ARGUMENT"
    ELSE "INTERNAL"

\* LibraryServiceServicer.BorrowBook: the status code set for the outcome e of
\* borrowing_service.borrow_book. For an exception outside the taxonomy the
\* handler calls error_handler.handle_grpc_exception and drops its result:
\* the code it sets is the one of map_generic_exception_to_grpc_status.
BorrowBook(e) ==
    IF e = NoExc THEN "OK"
    ELSE IF e.type \in LibraryServiceErrors THEN map_exception_to_grpc_status(e.code)
    ELSE map_generic_exception_to_grpc_status(e)

\* LibraryServiceServicer.ReturnBook: except ValueError / except Exception
ReturnBook(e) ==
    IF e = NoExc THEN "OK"
    ELSE IF e.type = "ValueError" THEN "INVALID_ARGUMENT"
    ELSE "INTERNAL"

Response(status, error, message, is_returned) ==
    [status |-> status, error |-> error, message |-> message,
     is_returned |-> is_returned]

rest_borrow_book_Generic(l) ==
    IF l.exc = NoExc
    THEN Response(201, "", "", \E i \in l.ret : borrowings[i].return_date # NULL)
    ELSE IF l.exc.type = "ValidationError"
    THEN Response(400, "Validation Error", l.exc.msg, FALSE)
    ELSE Response(500, l.exc.msg, "", FALSE)

\* rest_api.borrow_book (POST /borrowings): the response to a call whose
\* engine call ended as frame l tells; the Borrowing returned was loaded by
\* session.refresh when the call committed
rest_borrow_book(l) ==
    IF l.exc = NoExc
    THEN Response(201, "", "", \E i \in l.ret : borrowings[i].return_date # NULL)
    ELSE IF l.exc.type = "ValidationError"
    THEN Response(400, "Validation Error", l.exc.msg, FALSE)
    ELSE IF l.exc.type = "ValueError"
    THEN Response(400, l.exc.msg, "", FALSE)
    ELSE Response(500, l.exc.msg, "", FALSE)

\* rest_api.return_book (POST /borrowings/return): except Exception -> 500
rest_return_book(l) ==
    IF l.exc = NoExc
    THEN Response(200, "", "", \E i \in l.ret : borrowings[i].return_date # NULL)
    ELSE Response(500, l.exc.msg, "", FALSE)

\* ------------------------------------------------------ catalog: BookService
\* field values handed to create_book and update_book
Isbn10 == <<"0", "-", "3", "0", "6", "4", "0", "6", "1", "5", "2">>

Isbn13 == <<"9", "7", "8", "0", "3", "0", "6", "4", "0", "6", "1", "5", "7">>

TitleInputs == {NoneStr, Str(<< >>), Str(<<" ">>), Str(<<"b">>), Str(<<" ", "b">>)}

AuthorInputs == {NoneStr, Str(<< >>), Str(<<"c">>)}

IsbnInputs == {NoneStr, Str(<< >>), Str(Isbn10), Str(Isbn13), Str(<<"1", "2">>)}

\* utils.validators.ValidationError: a plain Exception subclass, which
\* neither pydantic nor validate_data converts
ValidatorsValidationError(msg) == Exc("validators.ValidationError", "NONE", msg, 0)

\* reading a local variable that was never assigned
UnboundLocalError(name) == Exc("UnboundLocalError", "NONE", name, 0)

IsbnTaken_Never(isbn, self) == FALSE

\* the unique constraint on books.isbn: another committed row holds the value
\* (NULL never conflicts)
IsbnTaken(isbn, self) ==
    isbn.t = "str" /\ \E b \in books \ {self} : catalog[b].isbn = isbn

\* BaseService._update_record: for key, value in kwargs.items():
\* if hasattr(record, key) and value is not None: setattr(record, key, value)
setattr(record, kwargs) ==
    BookRow(IF kwargs.title.t # "none" THEN kwargs.title ELSE record.title,
            IF kwargs.author.t # "none" THEN kwargs.author ELSE record.author,
            IF kwargs.isbn.t # "none" THEN kwargs.isbn ELSE record.isbn)

\* the points at which the store may fail while a catalog statement runs
CatalogFaults == {"none", "query", "flush"}

\* BookService.get_book / BaseService._get_by_id: the query, then the commit
\* of get_db_session on return
get_book(p, book_id) ==
    /\ CanCall(p)
    /\ \E fault \in {"none", "query", "commit"} :
        LET validated_id == validate_id(book_id)
            l == [get_session("get_book") EXCEPT !.book_id = validated_id.v]
        IN
        local' = [local EXCEPT ![p] =
            IF ~validated_id.ok
            THEN Rejected("get_book", validate_id_error(book_id))
            ELSE IF fault = "query" THEN Rollback(l, OperationalError)
            ELSE IF l.book_id \notin books THEN Rollback(l, BookNotFoundError)
            ELSE IF fault = "commit" THEN Rollback(l, OperationalError)
            ELSE Committed([l EXCEPT !.rv = "Book", !.ret = {l.book_id}])]
    /\ ncalls' = ncalls + 1
    /\ UNCHANGED <<validation, catalog, book_seq, mapper, books, members, borrowings, clock>>

\* BookService.create_book / BaseService._create_record up to session.flush():
\* the INSERT draws the id from the sequence and is refused when the isbn is
\* taken
create_book(p, title, author, isbn) ==
    /\ CanCall(p)
    /\ \E fault \in CatalogFaults \ {"query"} :
        LET t == BookCreateSchema_title(title)
            a == BookCreateSchema_title(author)
            i == BookUpdateSchema_isbn(isbn)
            validated_data == validate_book_data(t, a, i)
            args == BookRow(title, author, isbn)
            l == [get_session("create_book") EXCEPT
                    !.args = args, !.data = BookRow(t.v, a.v, i.v)]
            inserts == validated_data.ok /\ fault = "none"
        IN
        /\ local' = [local EXCEPT ![p] =
            IF validated_data.raw
            THEN [Rejected("create_book", ValidatorsValidationError(validated_data.msg))
                    EXCEPT !.args = args]
            ELSE IF ~validated_data.ok
            THEN [Rejected("create_book", validate_data_error) EXCEPT !.args = args]
            ELSE IF fault = "flush" THEN Rollback(l, OperationalError)
            ELSE IF IsbnTaken(i.v, 0) THEN Rollback(l, IntegrityError)
            ELSE [l EXCEPT !.book_id = book_seq + 1, !.pc = "commit",
                           !.pending = Pending("insert", Row(book_seq + 1, 0, 0, 0, NULL))]]
        /\ book_seq' = IF inserts THEN book_seq + 1 ELSE book_seq
    /\ ncalls' = ncalls + 1
    /\ UNCHANGED <<validation, catalog, mapper, books, members, borrowings, clock>>

\* BookService.update_book / BaseService._update_record up to session.flush()
update_book(p, book_id, title, author, isbn) ==
    /\ CanCall(p)
    /\ \E fault \in CatalogFaults :
        LET validated_id == validate_id(book_id)
            args == BookRow(title, author, isbn)
            \* if any([title, author, isbn])
            validates == TruthyStr(title) \/ TruthyStr(author) \/ TruthyStr(isbn)
            t == BookUpdateSchema_title(title)
            a == BookUpdateSchema_title(author)
            i == BookUpdateSchema_isbn(isbn)
            validated_data == validate_book_data(t, a, i)
            \* validated_data is read for every field that is not None
            unbound == ~validates /\ args # NoBook
            update_kwargs == IF validates THEN BookRow(t.v, a.v, i.v) ELSE NoBook
            l == [get_session("update_book") EXCEPT
                    !.book_id = validated_id.v, !.args = args, !.data = update_kwargs]
            rejected(e) ==
                [Rejected("update_book", e) EXCEPT
                    !.book_id = validated_id.v, !.args = args]
        IN
        local' = [local EXCEPT ![p] =
            IF ~validated_id.ok THEN rejected(validate_id_error(book_id))
            ELSE IF validates /\ validated_data.raw
            THEN rejected(ValidatorsValidationError(validated_data.msg))
            ELSE IF validates /\ ~validated_data.ok THEN rejected(validate_data_error)
            ELSE IF unbound THEN rejected(UnboundLocalError("validated_data"))
            ELSE IF fault = "query" THEN Rollback(l, OperationalError)
            ELSE IF l.book_id \notin books THEN Rollback(l, BookNotFoundError)
            ELSE IF fault = "flush" THEN Rollback(l, OperationalError)
            ELSE IF IsbnTaken(update_kwargs.isbn, l.book_id)
            THEN Rollback(l, IntegrityError)
            ELSE [l EXCEPT !.pc = "commit",
                           !.pending = Pending("update", Row(l.book_id, 0, 0, 0, NULL))]]
    /\ ncalls' = ncalls + 1
    /\ UNCHANGED <<validation, catalog, book_seq, mapper, books, members, borrowings, clock>>

\* get_db_session on return from _create_record / _update_record:
\* session.commit() makes the flushed row visible, or fails and rolls back
CatalogCommit(p) ==
    /\ local[p].pc = "commit"
    /\ local[p].op \in {"create_book", "update_book"}
    /\ \E fault \in BOOLEAN :
        LET id == local[p].book_id IN
        IF fault
        THEN /\ local' = [local EXCEPT ![p] = Rollback(@, OperationalError)]
             /\ UNCHANGED <<books, catalog>>
        ELSE /\ books' = books \cup {id}
             /\ catalog' = [b \in books \cup {id} |->
                              IF b # id THEN catalog[b]
                              ELSE IF local[p].op = "create_book" THEN local[p].data
                              ELSE setattr(catalog[b], local[p].data)]
             /\ local' = [local EXCEPT ![p] =
                    Committed([@ EXCEPT !.rv = "Book", !.ret = {id},
                                        !.wrote = @ \cup {<<"books", id>>}])]
    /\ UNCHANGED <<validation, book_seq, mapper, members, borrowings, clock, ncalls>>

\* rest_api.get_book (GET /books/<id>): `if not book` -> 404, except -> 500
rest_get_book(l) ==
    IF l.exc = NoExc
    THEN IF l.rv = "None" THEN Response(404, "Book not found", "", FALSE)
         ELSE Response(200, "", "", FALSE)
    ELSE Response(500, l.exc.msg, "", FALSE)

\* rest_api.update_book (PUT /books/<id>)
rest_update_book(l) ==
    IF l.exc = NoExc
    THEN IF l.rv = "None" THEN Response(404, "Book not found", "", FALSE)
         ELSE Response(200, "", "", FALSE)
    ELSE IF l.exc.type = "ValidationError"
    THEN Response(400, "Validation Error", l.exc.msg, FALSE)
    ELSE Response(500, l.exc.msg, "", FALSE)

\* rest_api.delete_book (DELETE /books/<id>): `if not success` -> 404
rest_delete_book(l) ==
    IF l.exc = NoExc
    THEN IF l.rv = "True" THEN Response(200, "", "Book deleted successfully", FALSE)
         ELSE Response(404, "Book not found", "", FALSE)
    ELSE Response(500, l.exc.msg, "", FALSE)

\* the REST answer to the catalog call that ended as frame l tells
rest_catalog(l) ==
    IF l.op = "get_book" THEN rest_get_book(l)
    ELSE IF l.op = "update_book" THEN rest_update_book(l)
    ELSE rest_delete_book(l)

\* ------------------------------------------------- validators, one by one
\* values handed to validate_positive_integer and validate_id
PyValues ==
    {IntVal(i) : i \in (0 - MaxInt)..MaxInt} \cup {StrVal(i) : i \in (0 - MaxInt)..MaxInt}
        \cup {FloatVal(i) : i \in 0..MaxInt} \cup {NoneVal, WordVal}

\* nine digits and twelve digits that ISBN inputs begin with
Prefix9 ==
    {<<"0", "3", "0", "6", "4", "0", "6", "1", "5">>,
     <<"0", "8", "0", "4", "4", "2", "9", "5", "7">>,
     <<"0", "0", "0", "0", "0", "0", "0", "0", "0">>,
     <<"0", "3", "0", "6", "X", "0", "6", "1", "5">>}

Prefix12 ==
    {<<"9", "7", "8", "0", "3", "0", "6", "4", "0", "6", "1", "5">>,
     <<"9", "7", "8", "0", "0", "0", "0", "0", "0", "0", "2", "0">>}

\* the same text written with a hyphen after the first character and a space
\* before the last one
Hyphenated(s) ==
    <<s[1], "-">> \o SubSeq(s, 2, Len(s) - 1) \o <<" ", s[Len(s)]>>

IsbnTexts ==
    LET plain == {p \o <<c>> : p \in Prefix9 \cup Prefix12, c \in Digits \cup {"X", "x"}}
    IN plain \cup {Hyphenated(s) : s \in plain}
         \cup {<< >>, <<"-">>, <<" ">>, <<"1", "2">>}
         \cup Prefix9 \cup Prefix12

IsbnValues == {Str(s) : s \in IsbnTexts} \cup {NoneStr}

\* messages of validation errors, with the keywords that
\* `... in message.lower()` finds in them
MessageInputs ==
    {[msg |-> "Invalid format", words |-> {"invalid", "format"}],
     [msg |-> "Invalid email format", words |-> {"invalid", "format"}],
     [msg |-> "Wrong date format", words |-> {"format"}],
     [msg |-> "Invalid length", words |-> {"invalid", "length"}],
     [msg |-> "Invalid value", words |-> {"invalid"}],
     [msg |-> "must be positive", words |-> {}]}

\* the `value` argument of ValidationError: not given (None), given and
\* falsy ('' or 0), given and truthy
ValueInputs == {"absent", "falsy", "truthy"}

\* utils.validators.validate_positive_integer(value, field_name)
ValidatePositiveInteger(value) ==
    /\ validation = NoValidation
    /\ validation' = [fn |-> "validate_positive_integer", arg |-> value,
                      out |-> validate_positive_integer(value)]
    /\ UNCHANGED <<books, members, borrowings, clock, ncalls, local, catalog, book_seq, mapper>>

\* ValidationService.validate_id(id_value)
ValidateId(id_value) ==
    /\ validation = NoValidation
    /\ validation' = [fn |-> "validate_id", arg |-> id_value, out |-> validate_id(id_value)]
    /\ UNCHANGED <<books, members, borrowings, clock, ncalls, local, catalog, book_seq, mapper>>

\* utils.validators.validate_isbn(isbn): `if not isbn: return isbn`, then
\* the checks on the cleaned text
ValidateIsbn(isbn) ==
    /\ validation = NoValidation
    /\ validation' = [fn |-> "validate_isbn", arg |-> isbn,
                      out |-> IF ~TruthyStr(isbn) THEN Accepted(isbn)
                              ELSE validate_isbn(isbn.s)]
    /\ UNCHANGED <<books, members, borrowings, clock, ncalls, local, catalog, book_seq, mapper>>

\* exceptions.base.ValidationError(message, field, value) handed to
\* ErrorHandler.handle_exception, which writes error_code and error_category
\* into its log record
RaiseValidationError(message, hasField, value) ==
    /\ validation = NoValidation
    /\ LET e == ValidationError(message.msg, hasField, value = "truthy", message.words) IN
       validation' =
            [fn |-> "ValidationError",
             arg |-> [message |-> message, field |-> hasField, value |-> value],
             out |-> [exc |-> e,
                      error_code |-> handle_exception(e),
                      error_category |->
                            IF e.type \in LibraryServiceErrors
                            THEN get_error_category(e.code) ELSE "system"]]
    /\ UNCHANGED <<books, members, borrowings, clock, ncalls, local, catalog, book_seq, mapper>>

\* ----------------------------------------------------------- specification
Call(p) ==
    \/ \E b \in IdInputs, m \in IdInputs : borrow_book(p, b, m)
    \/ \E b \in IdInputs, m \in IdInputs : return_book(p, b, m)
    \/ \E m \in IdInputs : get_member_borrowings(p, m)
    \/ get_active_borrowings(p)
    \/ \E i \in IdInputs : get_borrowing(p, i)
    \/ \E b \in IdInputs : delete_book(p, b)
    \/ \E m \in IdInputs : delete_member(p, m)

Step(p) ==
    \/ BorrowQueryMember(p)
    \/ BorrowQueryActive(p)
    \/ BorrowCommit(p)
    \/ ReturnCommit(p)
    \/ DeleteCommit(p)
    \/ Return(p)

Next == \E p \in Procs : Call(p) \/ Step(p)

Spec == Init /\ [][Next]_vars

\* calls served one at a time: no call starts while another is in flight
NoneInFlight == \A p \in Procs : local[p].pc = "idle"

NextSeq == \E p \in Procs : (NoneInFlight /\ Call(p)) \/ Step(p)

SeqSpec == Init /\ [][NextSeq]_vars

\* the error mapper applied to every error code
NextMap ==
    \/ \E c \in ErrorCode : raise_error(c)
    \/ MapToGrpc
    \/ MapToHttp
    \/ IsRetryable
    \/ GetCategory

MapSpec == Init /\ [][NextMap]_vars

\* the validators applied to every input value
NextValidate ==
    \/ \E v \in PyValues : ValidatePositiveInteger(v)
    \/ \E v \in PyValues : ValidateId(v)
    \/ \E i \in IsbnValues : ValidateIsbn(i)
    \/ \E m \in MessageInputs, f \in BOOLEAN, v \in ValueInputs : RaiseValidationError(m, f, v)

ValidateSpec == Init /\ [][NextValidate]_vars

\* the catalog served one call at a time
CatalogCall(p) ==
    \/ \E b \in IdInputs : get_book(p, b)
    \/ \E t \in TitleInputs, a \in AuthorInputs, i \in IsbnInputs : create_book(p, t, a, i)
    \/ \E b \in IdInputs, t \in TitleInputs, a \in AuthorInputs, i \in IsbnInputs :
            update_book(p, b, t, a, i)
    \/ \E b \in IdInputs : delete_book(p, b)

CatalogStep(p) ==
    \/ CatalogCommit(p)
    \/ DeleteCommit(p)
    \/ Return(p)

NextCatalog == \E p \in Procs : (NoneInFlight /\ CatalogCall(p)) \/ CatalogStep(p)

CatalogSpec == Init /\ [][NextCatalog]_vars

\* ================================================================= claims
AllIds == 1..MaxId

Done(p) == local[p].pc = "done"

Ok(p) == Done(p) /\ local[p].exc = NoExc

\* the call of worker p ran on a session and ended without a store fault
Answered(p) ==
    /\ Done(p)
    /\ local[p].sess = "closed"
    /\ local[p].exc.type \notin {"OperationalError", "IntegrityError"}

\* the step in which the call served by worker p ends
Finishes(p) == local[p].pc # "done" /\ local'[p].pc = "done"

\* C1: every book has at most one Borrowing row with return_date = NULL, in
\* every reachable state and under every interleaving of concurrent
\* borrow_book calls on the same book.
C1_OneActiveLoanPerBook ==
    \A b \in AllIds : Cardinality(ActiveOfBook(borrowings, b)) <= 1

\* C2: with calls served one at a time, a return(b, m) that follows a
\* borrow(b, m) succeeds, adds and removes no row, sets return_date on the one
\* active row of (b, m) and leaves no active loan for b; a borrow(b, m2) of an
\* existing book without active loan by an existing member fails only on a
\* store fault, and when it succeeds it appends exactly one active row (b, m2).
C2_RoundTripStep(p) ==
    LET b == local'[p].book_id
        m == local'[p].member_id
        n == Len(borrowings)
    IN
    /\ (Finishes(p) /\ local'[p].op = "return_book" /\ local'[p].exc = NoExc) =>
          \E r \in ActiveOfPair(borrowings, b, m) :
             /\ ActiveOfPair(borrowings, b, m) = {r}
             /\ local'[p].ret = {r}
             /\ Len(borrowings') = n
             /\ RowsOfPair(borrowings', b, m) = RowsOfPair(borrowings, b, m)
             /\ borrowings'[r].return_date # NULL
             /\ ActiveOfBook(borrowings', b) = {}
    /\ (Finishes(p) /\ local'[p].op = "return_book" /\ local'[p].sess = "closed"
          /\ ActiveOfPair(borrowings, b, m) # {}) =>
          local'[p].exc \in {NoExc, OperationalError}
    /\ (Finishes(p) /\ local'[p].op = "borrow_book" /\ local'[p].exc = NoExc) =>
          /\ Len(borrowings') = n + 1
          /\ \A i \in 1..n : borrowings'[i] = borrowings[i]
          /\ borrowings'[n + 1].book_id = b
          /\ borrowings'[n + 1].member_id = m
          /\ borrowings'[n + 1].return_date = NULL
          /\ local'[p].ret = {n + 1}
    /\ (Finishes(p) /\ local'[p].op = "borrow_book" /\ local'[p].sess = "closed"
          /\ b \in books /\ m \in members /\ ActiveOfBook(borrowings, b) = {}) =>
          local'[p].exc \in {NoExc, OperationalError}

C2_RoundTrip == [][\A p \in Procs : C2_RoundTripStep(p)]_vars

\* C2 witness: a book borrowed and returned by one member, then borrowed
\* with success by another
C2_Witness ==
    \E p \in Procs :
        /\ Ok(p) /\ local[p].op = "borrow_book" /\ local[p].ret = {2}
        /\ Len(borrowings) = 2
        /\ borrowings[1].book_id = borrowings[2].book_id
        /\ borrowings[1].member_id # borrowings[2].member_id
        /\ borrowings[1].return_date # NULL
        /\ borrowings[2].return_date = NULL

\* C3: a borrow of an existing book by an existing member while the book has
\* an active loan fails with kind CONFLICT, its details name the member who
\* holds the book, and it creates no row.
C3_BorrowConflict ==
    \A p \in Procs :
        (/\ Answered(p) /\ local[p].op = "borrow_book" /\ local[p].wrote = {}
         /\ local[p].book_id \in books /\ local[p].member_id \in members
         /\ ActiveOfBook(borrowings, local[p].book_id) # {})
        => /\ handle_exception(local[p].exc) = "CONFLICT"
           /\ \E r \in ActiveOfBook(borrowings, local[p].book_id) :
                 local[p].exc.holder = borrowings[r].member_id

\* C4: a return(b, m) made when the only rows of (b, m) are already returned
\* fails with kind OPERATION_NOT_ALLOWED and changes no row.
C4_SecondReturn ==
    \A p \in Procs :
        (/\ Answered(p) /\ local[p].op = "return_book" /\ local[p].wrote = {}
         /\ RowsOfPair(borrowings, local[p].book_id, local[p].member_id) # {}
         /\ ActiveOfPair(borrowings, local[p].book_id, local[p].member_id) = {})
        => handle_exception(local[p].exc) = "OPERATION_NOT_ALLOWED"

\* C5: a borrow of a missing book, or of an existing book by a missing
\* member, fails with kind RESOURCE_NOT_FOUND and writes nothing.
C5_BorrowNotFound ==
    \A p \in Procs :
        (/\ Answered(p) /\ local[p].op = "borrow_book"
         /\ (local[p].book_id \notin books \/ local[p].member_id \notin members))
        => /\ handle_exception(local[p].exc) = "RESOURCE_NOT_FOUND"
           /\ local[p].wrote = {}

\* C6: a return(b, m2) while b is on loan to another member m1 fails with kind
\* OPERATION_NOT_ALLOWED, and the loan of m1 stays active.
C6_ReturnWrongMember ==
    \A p \in Procs :
        (/\ Answered(p) /\ local[p].op = "return_book"
         /\ ActiveOfPair(borrowings, local[p].book_id, local[p].member_id) = {}
         /\ RowsOfPair(borrowings, local[p].book_id, local[p].member_id) = {}
         /\ ActiveOfBook(borrowings, local[p].book_id) # {})
        => /\ handle_exception(local[p].exc) = "OPERATION_NOT_ALLOWED"
           /\ local[p].wrote = {}

\* C7: a Borrowing row is never deleted, and once its return_date is set the
\* row never changes again, also when return_book calls run concurrently.
C7_ReturnedRowFrozen ==
    [][\A i \in Ids(borrowings) :
          /\ i \in Ids(borrowings')
          /\ borrowings[i].return_date # NULL => borrowings'[i] = borrowings[i]]_vars

\* C8: a call of borrow_book, return_book, get_member_borrowings or
\* get_borrowing that fails validation has opened no session and written
\* nothing.
C8_ValidationBeforeSession ==
    \A p \in Procs :
        (Done(p) /\ local[p].exc.type = "ValidationError") =>
            /\ local[p].sess = "none"
            /\ local[p].wrote = {}
            /\ local[p].pending = NoPending

\* C8 witness: a get_borrowing call rejected by validation while the store
\* holds rows
C8_Witness ==
    \E p \in Procs :
        /\ Done(p) /\ local[p].op = "get_borrowing"
        /\ local[p].exc.type = "ValidationError"
        /\ Len(borrowings) > 0

\* C9: a borrow_book call that ends with an exception has committed no row.
C9_AbortLeavesNoRow ==
    \A p \in Procs :
        (Done(p) /\ local[p].op = "borrow_book" /\ local[p].exc # NoExc) =>
            local[p].wrote = {}

\* C10: every Borrowing row refers to an existing Book and an existing Member.
C10_NoOrphanBorrowing ==
    \A i \in Ids(borrowings) :
        borrowings[i].book_id \in books /\ borrowings[i].member_id \in members

\* C10 witness: delete_book refused on a book whose only Borrowing row is
\* already returned
C10_Witness ==
    \E p \in Procs :
        /\ Done(p) /\ local[p].op = "delete_book"
        /\ local[p].exc = InfraDatabaseError("Database integrity constraint violation")
        /\ Referencing(local[p].book_id) # {}
        /\ ActiveOfBook(borrowings, local[p].book_id) = {}

\* the tables of the specification, by kind
C14_RpcStatus(kind) ==
    IF kind \in ValidationErrorCodes THEN "INVALID_ARGUMENT"
    ELSE IF kind = "RESOURCE_NOT_FOUND" THEN "NOT_FOUND"
    ELSE IF kind = "RESOURCE_ALREADY_EXISTS" THEN "ALREADY_EXISTS"
    ELSE IF kind \in {"BUSINESS_RULE_VIOLATION", "OPERATION_NOT_ALLOWED"}
    THEN "FAILED_PRECONDITION"
    ELSE IF kind = "CONFLICT" THEN "ABORTED"
    ELSE IF kind \in {"CONNECTION_ERROR", "SERVICE_UNAVAILABLE"} THEN "UNAVAILABLE"
    ELSE IF kind = "TIMEOUT" THEN "DEADLINE_EXCEEDED"
    ELSE IF kind = "RATE_LIMIT_EXCEEDED" THEN "RESOURCE_EXHAUSTED"
    ELSE "INTERNAL"

C14_HttpStatus(kind) ==
    IF kind \in ValidationErrorCodes THEN 400
    ELSE IF kind = "RESOURCE_NOT_FOUND" THEN 404
    ELSE IF kind \in {"RESOURCE_ALREADY_EXISTS", "CONFLICT"} THEN 409
    ELSE IF kind = "BUSINESS_RULE_VIOLATION" THEN 422
    ELSE IF kind = "OPERATION_NOT_ALLOWED" THEN 403
    ELSE IF kind = "CONNECTION_ERROR" THEN 503
    ELSE IF kind = "TIMEOUT" THEN 504
    ELSE IF kind = "RATE_LIMIT_EXCEEDED" THEN 429
    ELSE 500

\* the kinds of the taxonomy: the error codes less the authorization ones
C14_Kinds == ErrorCode \ AuthorizationErrorCodes

\* C14: both mappings are total over the error codes (the default of the
\* lookup is never taken), and every kind of the taxonomy gets the RPC status
\* and the HTTP status of the specification's tables (service_unavailable,
\* whose HTTP status the tables leave open, is held to its RPC status only).
C14_MappingDeterminism ==
    /\ "grpc" \in mapper.applied =>
          /\ ~mapper.grpc_default
          /\ mapper.code \in C14_Kinds => mapper.grpc = C14_RpcStatus(mapper.code)
    /\ "http" \in mapper.applied =>
          /\ ~mapper.http_default
          /\ mapper.code \in C14_Kinds \ {"SERVICE_UNAVAILABLE"} =>
                mapper.http = C14_HttpStatus(mapper.code)

\* C14 witness: conflict mapped on both transports
C14_Witness ==
    /\ mapper.code = "CONFLICT"
    /\ {"grpc", "http"} \subseteq mapper.applied
    /\ mapper.grpc = "ABORTED"
    /\ mapper.http = 409

\* C15: is_retryable_error answers true exactly for the error codes whose RPC
\* status is UNAVAILABLE, DEADLINE_EXCEEDED, RESOURCE_EXHAUSTED or ABORTED:
\* never for validation, not-found, internal and storage errors, always for
\* connection_error, service_unavailable, timeout, rate_limit and conflict.
C15_Retryable ==
    "retryable" \in mapper.applied =>
        /\ mapper.retryable <=>
              C14_RpcStatus(mapper.code)
                  \in {"UNAVAILABLE", "DEADLINE_EXCEEDED", "RESOURCE_EXHAUSTED", "ABORTED"}
        /\ mapper.code \in ValidationErrorCodes
              \cup {"RESOURCE_NOT_FOUND", "INTERNAL_ERROR", "DATABASE_ERROR",
                    "INTEGRITY_CONSTRAINT_VIOLATION", "TRANSACTION_ERROR"}
              => ~mapper.retryable
        /\ mapper.code \in {"CONNECTION_ERROR", "SERVICE_UNAVAILABLE", "TIMEOUT",
                            "RATE_LIMIT_EXCEEDED", "CONFLICT"}
              => mapper.retryable

\* C15 witness: a connection error found retryable
C15_Witness ==
    /\ mapper.code = "CONNECTION_ERROR"
    /\ "retryable" \in mapper.applied
    /\ mapper.retryable

\* C16: every kind of the taxonomy falls in the category the specification's
\* table gives it: validation, business_logic, database (storage) or system.
C16_Categories ==
    ("category" \in mapper.applied /\ mapper.code \in C14_Kinds) =>
        /\ mapper.category \in {"validation", "business_logic", "database", "system"}
        /\ mapper.category = "validation" <=>
              mapper.code \in {"VALIDATION_ERROR", "REQUIRED_FIELD_MISSING",
                               "INVALID_FORMAT", "INVALID_LENGTH", "INVALID_VALUE"}
        /\ mapper.category = "business_logic" <=>
              mapper.code \in {"RESOURCE_NOT_FOUND", "RESOURCE_ALREADY_EXISTS",
                               "BUSINESS_RULE_VIOLATION", "OPERATION_NOT_ALLOWED",
                               "CONFLICT"}
        /\ mapper.category = "database" <=>
              mapper.code \in {"DATABASE_ERROR", "INTEGRITY_CONSTRAINT_VIOLATION",
                               "CONNECTION_ERROR", "TRANSACTION_ERROR"}
        /\ mapper.category = "system" <=>
              mapper.code \in {"INTERNAL_ERROR", "SERVICE_UNAVAILABLE", "TIMEOUT",
                               "RATE_LIMIT_EXCEEDED"}

\* C16 witness: a transaction error put in the database category
C16_Witness ==
    /\ mapper.code = "TRANSACTION_ERROR"
    /\ "category" \in mapper.applied
    /\ mapper.category = "database"

\* a fault of the store: the exception of the driver, or what get_db_session
\* raises in its place
C12_StoreFault(e) ==
    \/ e.type \in {"OperationalError", "IntegrityError"}
    \/ e \in {get_db_session_error(OperationalError), get_db_session_error(IntegrityError)}

\* C12: a store fault raised during an engine or catalog operation reaches
\* the caller as an error of the taxonomy whose kind is of the storage
\* category (integrity_violation for a constraint violation, connection_error
\* for a connection loss), never as an exception outside the taxonomy.
C12_StoreFaultClassified ==
    \A p \in Procs :
        (Done(p) /\ C12_StoreFault(local[p].exc)) =>
            /\ local[p].exc.type \in LibraryServiceErrors \cup {"DatabaseError"}
            /\ local[p].exc.code \in DatabaseErrorCodes
            /\ handle_exception(local[p].exc) \in DatabaseErrorCodes

\* C13: a failure of borrow_book or return_book whose exception is outside
\* the taxonomy is wrapped as INTERNAL_ERROR and is reported with the status
\* of internal_error on both transports: INTERNAL and 500.
C13_RawErrorIsInternal ==
    \A p \in Procs :
        (/\ Done(p) /\ local[p].exc # NoExc
         /\ local[p].exc.type \notin LibraryServiceErrors
         /\ local[p].op \in {"borrow_book", "return_book"})
        => /\ handle_exception(local[p].exc) = "INTERNAL_ERROR"
           /\ local[p].op = "borrow_book" =>
                 /\ BorrowBook(local[p].exc) = "INTERNAL"
                 /\ rest_borrow_book(local[p]).status = 500
           /\ local[p].op = "return_book" =>
                 /\ ReturnBook(local[p].exc) = "INTERNAL"
                 /\ rest_return_book(local[p]).status = 500

\* C17: BorrowBook and ReturnBook set the status the mapping gives the kind
\* of the failure: NOT_FOUND for a missing book or member, ABORTED for a book
\* already borrowed, FAILED_PRECONDITION for a return without active
\* borrowing, INVALID_ARGUMENT for an invalid id.
C17_GrpcStatusOfFailure ==
    \A p \in Procs :
        LET l == local[p] IN
        /\ (Done(p) /\ l.exc.type = "ValidationError" /\ l.op = "borrow_book")
              => BorrowBook(l.exc) = "INVALID_ARGUMENT"
        /\ (Done(p) /\ l.exc.type = "ValidationError" /\ l.op = "return_book")
              => ReturnBook(l.exc) = "INVALID_ARGUMENT"
        /\ (Answered(p) /\ l.op = "borrow_book"
              /\ (l.book_id \notin books \/ l.member_id \notin members))
              => BorrowBook(l.exc) = "NOT_FOUND"
        /\ (Answered(p) /\ l.op = "borrow_book" /\ l.exc # NoExc
              /\ l.book_id \in books /\ l.member_id \in members)
              => BorrowBook(l.exc) = "ABORTED"
        /\ (Answered(p) /\ l.op = "return_book" /\ l.exc # NoExc)
              => ReturnBook(l.exc) = "FAILED_PRECONDITION"

\* the message of the business rule a borrow of (b, m) fails
C18_Failure(b, m) ==
    IF b \notin books THEN "Book not found"
    ELSE IF m \notin members THEN "Member not found"
    ELSE "Book is already borrowed"

\* C18: POST /borrowings answers 400 with the message of the failed business
\* rule in the 'error' field and creates no row when the book is missing, the
\* member is missing or the book is already borrowed; it answers 400 to a
\* validation failure, and 201 with is_returned = false to a success.
C18_RestBorrow ==
    \A p \in Procs :
        LET l == local[p] IN
        (Done(p) /\ l.op = "borrow_book") =>
            /\ l.exc.type = "ValidationError" =>
                  rest_borrow_book(l).status = 400 /\ l.wrote = {}
            /\ (Answered(p) /\ l.exc # NoExc) =>
                  /\ rest_borrow_book(l).status = 400
                  /\ rest_borrow_book(l).error = C18_Failure(l.book_id, l.member_id)
                  /\ l.wrote = {}
                  /\ (l.book_id \in books /\ l.member_id \in members)
                        => ActiveOfBook(borrowings, l.book_id) # {}
            /\ l.exc = NoExc =>
                  /\ rest_borrow_book(l).status = 201
                  /\ rest_borrow_book(l).is_returned = FALSE
                  /\ \E i \in l.ret : /\ borrowings[i].book_id = l.book_id
                                      /\ borrowings[i].member_id = l.member_id
            /\ (Answered(p) /\ (l.book_id \notin books \/ l.member_id \notin members
                                \/ l.wrote = {})) => l.exc # NoExc

\* C18 witness: a borrow of a book on loan answered 400 'Book is already
\* borrowed'
C18_Witness ==
    \E p \in Procs :
        /\ Done(p) /\ local[p].op = "borrow_book"
        /\ local[p].exc = ValueError("Book is already borrowed")
        /\ rest_borrow_book(local[p]).status = 400
        /\ ActiveOfBook(borrowings, local[p].book_id) # {}
        /\ Len(borrowings) = 1

\* the catalog operations, each of which runs in one get_db_session scope
CatalogOps == {"get_book", "create_book", "update_book", "delete_book"}

\* C11: every catalog operation runs in a transaction scope of its own: when
\* its body returns normally the scope has committed exactly once and never
\* rolled back; when the body or the commit fails the scope has rolled back
\* once and never committed, the store is as it was before, and the fault is
\* raised to the caller (as database.DatabaseError); and the store changes
\* only in the step in which a scope commits.
C11_TransactionScope ==
    [][/\ \A p \in Procs :
            Finishes(p) /\ local'[p].op \in CatalogOps /\ local'[p].sess = "closed" =>
                IF local'[p].exc = NoExc
                THEN local'[p].commits = 1 /\ local'[p].rollbacks = 0
                ELSE /\ local'[p].commits = 0
                     /\ local'[p].rollbacks = 1
                     /\ local'[p].exc.type = "DatabaseError"
                     /\ local'[p].wrote = {}
                     /\ catalog' = catalog
                     /\ books' = books
       /\ (catalog' # catalog \/ books' # books) =>
            \E p \in Procs :
                Finishes(p) /\ local'[p].exc = NoExc /\ local'[p].commits = 1]_vars

\* an update_book whose UPDATE was refused (the isbn belongs to a row that an
\* earlier scope committed) ended rolled back, with the fault raised
C11_Witness ==
    \E p \in Procs :
        /\ Done(p)
        /\ local[p].op = "update_book"
        /\ local[p].exc = InfraDatabaseError("Database integrity constraint violation")
        /\ local[p].rollbacks = 1
        /\ local[p].commits = 0
        /\ \E b \in books \ {local[p].book_id} : catalog[b].isbn = local[p].data.isbn

\* the message of the error a store fault (connection lost) ends in
StoreFaultMessage == "Database connection or operation failed"

\* C19: a catalog operation on a Book id that no row has reports not-found
\* and leaves the store unchanged: get_book and update_book yield no record,
\* delete_book yields False, and REST answers 404 with 'Book not found'.
C19_MissingBookNotFound ==
    \A p \in Procs :
        /\ Done(p)
        /\ local[p].op \in {"get_book", "update_book", "delete_book"}
        /\ local[p].sess = "closed"
        /\ local[p].book_id \notin books
        /\ local[p].wrote = {}
        /\ local[p].exc.msg # StoreFaultMessage
        => /\ local[p].exc = NoExc
           /\ local[p].rv \in {"None", "False"}
           /\ rest_catalog(local[p]).status = 404
           /\ rest_catalog(local[p]).error = "Book not found"

\* update_book's field value x is unset: absent (None) or empty
C20_Unset(x) == ~TruthyStr(x)

\* the value update_book is to store for a supplied field
C20_Value(field, x) ==
    IF field = "isbn" THEN BookUpdateSchema_isbn(x) ELSE BookUpdateSchema_title(x)

\* the column after the update: the validated value of a supplied field, the
\* old value of an unset one
C20_Column(field, x, old) == IF C20_Unset(x) THEN old ELSE C20_Value(field, x).v

\* C20: an update_book of an existing book in which every field is either
\* unset (absent or empty) or supplied with a valid value ends, unless the
\* store fails, without error; it sets exactly the supplied fields to their
\* validated values and leaves the unset fields, the id and every other row
\* as they were.
C20_PartialUpdate ==
    [][\A p \in Procs :
        LET l == local'[p]
            id == l.book_id
        IN
        /\ Finishes(p)
        /\ l.op = "update_book"
        /\ id \in books
        /\ \A f \in {"title", "author", "isbn"} :
                C20_Unset(l.args[f]) \/ C20_Value(f, l.args[f]).ok
        /\ l.exc.type # "DatabaseError"
        => /\ l.exc = NoExc
           /\ books' = books
           /\ \A b \in books \ {id} : catalog'[b] = catalog[b]
           /\ catalog'[id] =
                BookRow(C20_Column("title", l.args.title, catalog[id].title),
                        C20_Column("author", l.args.author, catalog[id].author),
                        C20_Column("isbn", l.args.isbn, catalog[id].isbn))]_vars

\* no two committed Book rows hold the same non-null isbn
C21_UniqueIsbn ==
    \A b1 \in books, b2 \in books :
        b1 # b2 /\ catalog[b1].isbn.t = "str" => catalog[b1].isbn # catalog[b2].isbn

\* C21: no two Book rows ever share a non-null isbn: a create_book or an
\* update_book whose validated isbn another row holds fails with the store's
\* integrity violation, rolled back, and leaves the store unchanged; rows
\* without isbn never conflict, so a write that sets no isbn is never refused
\* for integrity.
C21_IsbnUnique ==
    [][/\ C21_UniqueIsbn'
       /\ \A p \in Procs :
            LET l == local'[p] IN
            Finishes(p) /\ l.op \in {"create_book", "update_book"} /\ l.sess = "closed" =>
                /\ (\E b \in books \ {l.book_id} :
                        l.data.isbn.t = "str" /\ catalog[b].isbn = l.data.isbn)
                   => /\ l.exc.type = "DatabaseError"
                      /\ l.rollbacks = 1
                      /\ l.commits = 0
                      /\ catalog' = catalog
                      /\ books' = books
                /\ l.data.isbn.t = "none"
                   => l.exc # InfraDatabaseError("Database integrity constraint violation")]_vars

\* a create_book with the isbn of a committed row was refused, while two
\* rows without isbn stand side by side
C21_Witness ==
    \E p \in Procs :
        /\ Done(p)
        /\ local[p].op = "create_book"
        /\ local[p].exc = InfraDatabaseError("Database integrity constraint violation")
        /\ \E b \in books : catalog[b].isbn = local[p].data.isbn
        /\ \E b1 \in books, b2 \in books :
                b1 # b2 /\ catalog[b1].isbn = NoneStr /\ catalog[b2].isbn = NoneStr

\* C22: positive-integer validation (validate_positive_integer and
\* validate_id) fails for every value that is not of integer type -- a
\* numeric-looking string, a float, None -- and for every integer <= 0, and
\* returns every integer > 0 as it is; no value is coerced.
C22_PositiveIntegerStrict ==
    validation.fn \in {"validate_positive_integer", "validate_id"} =>
        /\ (validation.arg.t # "int" \/ validation.arg.v <= 0) => ~validation.out.ok
        /\ (validation.arg.t = "int" /\ validation.arg.v > 0) =>
                validation.out = Valid(validation.arg.v)

C23_Kept(c) == c \notin {"-", " "}

\* the input with its hyphens and spaces taken out
C23_Stripped(s) == SelectSeq(s, C23_Kept)

\* sum(d[i] * (10 - i), i = 0..8) + check, X counting 10 (positions from 1 here)
C23_Sum10(d) ==
    DigitValue(d[1]) * 10 + DigitValue(d[2]) * 9 + DigitValue(d[3]) * 8
        + DigitValue(d[4]) * 7 + DigitValue(d[5]) * 6 + DigitValue(d[6]) * 5
        + DigitValue(d[7]) * 4 + DigitValue(d[8]) * 3 + DigitValue(d[9]) * 2
        + (IF d[10] = "X" THEN 10 ELSE DigitValue(d[10]))

\* sum(d[i] * (1 if i even else 3), i = 0..11)
C23_Sum13(d) ==
    DigitValue(d[1]) + DigitValue(d[2]) * 3 + DigitValue(d[3]) + DigitValue(d[4]) * 3
        + DigitValue(d[5]) + DigitValue(d[6]) * 3 + DigitValue(d[7]) + DigitValue(d[8]) * 3
        + DigitValue(d[9]) + DigitValue(d[10]) * 3 + DigitValue(d[11]) + DigitValue(d[12]) * 3

C23_ValidIsbn(d) ==
    \/ /\ Len(d) = 10
       /\ \A i \in 1..9 : d[i] \in Digits
       /\ d[10] \in Digits \cup {"X"}
       /\ C23_Sum10(d) % 11 = 0
    \/ /\ Len(d) = 13
       /\ \A i \in 1..13 : d[i] \in Digits
       /\ DigitValue(d[13]) = (10 - (C23_Sum13(d) % 10)) % 10

C27_FormatMessageIsInvalidFormat ==
    validation.fn = "ValidationError" /\ "format" \in validation.arg.message.words =>
        /\ validation.out.exc.code = "INVALID_FORMAT"
        /\ validation.out.error_code = "INVALID_FORMAT"
        /\ validation.out.error_category = "validation"

\* C24: borrow_book checks, in this order, that the book exists, that the
\* member exists and that the book has no active loan, and stops at the first
\* failure: with book and member both missing it fails with 'Book not found';
\* with the book present (borrowed or not) and the member missing it fails
\* with 'Member not found', never with the conflict.
C24_BorrowCheckOrder ==
    \A p \in Procs :
        /\ Done(p)
        /\ local[p].op = "borrow_book"
        /\ local[p].sess = "closed"
        /\ local[p].exc.type \notin {"OperationalError", "IntegrityError"}
        => /\ local[p].book_id \notin books
                => local[p].exc = ValueError("Book not found")
           /\ local[p].book_id \in books /\ local[p].member_id \notin members
                => local[p].exc = ValueError("Member not found")
           /\ local[p].exc = ValueError("Book is already borrowed")
                => local[p].book_id \in books /\ local[p].member_id \in members

\* a borrow of a borrowed book by a missing member ended with 'Member not found'
C24_Witness ==
    \E p \in Procs :
        /\ Done(p)
        /\ local[p].op = "borrow_book"
        /\ local[p].exc = ValueError("Member not found")
        /\ ActiveOfBook(borrowings, local[p].book_id) # {}

\* the operations of BorrowingService
EngineOps ==
    {"borrow_book", "return_book", "get_member_borrowings", "get_active_borrowings",
     "get_borrowing"}

\* C25: every session an engine operation opens is closed exactly once
\* before the operation returns or raises, on the success path and on every
\* failure path; a call in progress holds its own open session, not yet
\* closed; a worker that serves no call, or whose call has ended, holds no
\* open session.
C25_SessionClosedOnce ==
    \A p \in Procs :
        /\ local[p].pc \in {"idle", "done"} => local[p].sess # "open"
        /\ local[p].op \in EngineOps =>
            IF Done(p)
            THEN IF local[p].sess = "none" THEN local[p].closes = 0
                 ELSE local[p].sess = "closed" /\ local[p].closes = 1
            ELSE local[p].sess = "open" /\ local[p].closes = 0

\* a borrow_book whose refresh failed after its commit has closed its
\* session once, while another call is still in progress on its own session
C25_Witness ==
    \E p \in Procs, q \in Procs :
        /\ Done(p)
        /\ local[p].op = "borrow_book"
        /\ local[p].exc = OperationalError
        /\ local[p].wrote # {}
        /\ local[p].closes = 1
        /\ local[q].op \in EngineOps
        /\ local[q].sess = "open"

\* C26: the read-only engine operations return exactly the matching rows and
\* change nothing: get_active_borrowings the rows with return_date = NULL,
\* get_member_borrowings(m) the rows with member_id = m, returned ones
\* included, get_borrowing(id) the row with that id or None; the store is the
\* same after the call, whether it succeeds or fails.
C26_ReadOnlyExact ==
    [][\A p \in Procs :
        LET l == local'[p]
            all == 1..Len(borrowings)
        IN
        Finishes(p)
            /\ l.op \in {"get_active_borrowings", "get_member_borrowings", "get_borrowing"}
        => /\ borrowings' = borrowings
           /\ books' = books
           /\ members' = members
           /\ catalog' = catalog
           /\ l.wrote = {}
           /\ l.exc = NoExc /\ l.op = "get_active_borrowings"
                => l.ret = {i \in all : borrowings[i].return_date = NULL}
           /\ l.exc = NoExc /\ l.op = "get_member_borrowings"
                => l.ret = {i \in all : borrowings[i].member_id = l.member_id}
           /\ l.exc = NoExc /\ l.op = "get_borrowing"
                => /\ l.ret = {i \in all : borrowings[i].id = l.id}
                   /\ l.rv = "None" <=> l.id \notin all]_vars

\* get_member_borrowings has returned a row that was already returned
C26_Witness ==
    \E p \in Procs :
        /\ Done(p)
        /\ local[p].op = "get_member_borrowings"
        /\ local[p].exc = NoExc
        /\ \E i \in local[p].ret : borrowings[i].return_date # NULL

\* book b has an active Borrowing row among rows
C28_Borrowed(rows, b) == ActiveOfBook(rows, b) # {}

\* C28: with borrow and return calls served one at a time, every book has at
\* most one active Borrowing row in every state, and a book passes from
\* Available to Borrowed only in the step that ends a successful borrow_book
\* of it and from Borrowed to Available only in the step that ends a
\* successful return_book of it.
C28_SequentialAlternation ==
    [][\A b \in AllIds :
        /\ Cardinality(ActiveOfBook(borrowings', b)) <= 1
        /\ ~C28_Borrowed(borrowings, b) /\ C28_Borrowed(borrowings', b) =>
                \E p \in Procs :
                    /\ Finishes(p)
                    /\ local'[p].op = "borrow_book"
                    /\ local'[p].book_id = b
                    /\ local'[p].exc = NoExc
        /\ C28_Borrowed(borrowings, b) /\ ~C28_Borrowed(borrowings', b) =>
                \E p \in Procs :
                    /\ Finishes(p)
                    /\ local'[p].op = "return_book"
                    /\ local'[p].book_id = b
                    /\ local'[p].exc = NoExc]_vars

\* the rows of the table that differ between before and after
C29_Changed == {i \in 1..Len(borrowings) : borrowings'[i] # borrowings[i]}

\* C29: the step that ends a successful borrow_book adds exactly one
\* Borrowing row, with the book and the member of the call and return_date
\* NULL, and leaves every existing Borrowing row and every Book and Member
\* as it was; the step that ends a successful return_book sets the
\* return_date of exactly one row, leaves that row's id, book_id, member_id
\* and borrow_date and every other row as they were, and adds or removes no
\* row.
C29_FrameEffect ==
    [][\A p \in Procs :
        LET l == local'[p]
            n == Len(borrowings)
        IN
        /\ Finishes(p) /\ l.op = "borrow_book" /\ l.exc = NoExc =>
            /\ Len(borrowings') = n + 1
            /\ C29_Changed = {}
            /\ borrowings'[n + 1].book_id = l.book_id
            /\ borrowings'[n + 1].member_id = l.member_id
            /\ borrowings'[n + 1].return_date = NULL
            /\ l.ret = {n + 1}
            /\ books' = books /\ members' = members /\ catalog' = catalog
        /\ Finishes(p) /\ l.op = "return_book" /\ l.exc = NoExc =>
            /\ Len(borrowings') = n
            /\ Cardinality(C29_Changed) = 1
            /\ C29_Changed = l.ret
            /\ \A i \in C29_Changed :
                /\ borrowings'[i].return_date # NULL
                /\ borrowings'[i] = [borrowings[i] EXCEPT
                                        !.return_date = borrowings'[i].return_date]
            /\ books' = books /\ members' = members /\ catalog' = catalog]_vars

\* a return_book succeeded on a table that holds another row as well
C29_Witness ==
    \E p \in Procs :
        /\ Done(p)
        /\ local[p].op = "return_book"
        /\ local[p].exc = NoExc
        /\ Len(borrowings) >= 2
        /\ \E i \in local[p].ret : borrowings[i].return_date # NULL

\* worker p has ended a borrow_book of an existing book by an existing
\* member, the store did not fail, and no Borrowing row of that book exists
\* but the one the call itself wrote: the book was available all along
C30_BorrowOfAvailable(p) ==
    /\ Done(p)
    /\ local[p].op = "borrow_book"
    /\ local[p].sess = "closed"
    /\ local[p].book_id \in books
    /\ local[p].member_id \in members
    /\ local[p].exc.type # "OperationalError"
    /\ \A i \in 1..Len(borrowings) :
            borrowings[i].book_id = local[p].book_id => <<"borrowings", i>> \in local[p].wrote

\* C30: borrow_book calls on distinct available books do not interfere:
\* whatever the interleaving, and also for one and the same member, both
\* succeed and each has created its own row, which is active unless a return
\* that came later has closed it.
C30_DistinctBooksIndependent ==
    \A p \in Procs, q \in Procs :
        /\ p # q
        /\ C30_BorrowOfAvailable(p)
        /\ C30_BorrowOfAvailable(q)
        /\ local[p].book_id # local[q].book_id
        => /\ local[p].exc = NoExc
           /\ local[q].exc = NoExc
           /\ local[p].ret # local[q].ret
           /\ \A i \in local[p].ret :
                /\ borrowings[i].book_id = local[p].book_id
                /\ borrowings[i].member_id = local[p].member_id
                /\ is_active(borrowings[i]) \/ borrowings[i].return_date > borrowings[i].borrow_date

\* two overlapping borrows of distinct books by the same member have both
\* succeeded: the one that read the clock first committed second
C30_Witness ==
    \E p \in Procs, q \in Procs :
        /\ p # q
        /\ C30_BorrowOfAvailable(p)
        /\ C30_BorrowOfAvailable(q)
        /\ local[p].book_id # local[q].book_id
        /\ local[p].member_id = local[q].member_id
        /\ local[p].exc = NoExc
        /\ local[q].exc = NoExc
        /\ \E i \in local[p].ret, j \in local[q].ret :
                /\ i < j /\ borrowings[i].borrow_date > borrowings[j].borrow_date
                /\ is_active(borrowings[i]) /\ is_active(borrowings[j])

====
